---- MODULE Spec2Model ----
(***************************************************************************)
(* The recurrence engine of caser (server/src/recurrence/mod.rs):          *)
(* RecurrenceRuleInstance (rule inference and the BY filters) and the      *)
(* RRuleInstances iterator, over the rule type of                          *)
(* common/src/recurrence/mod.rs; the RRULE text of a rule (Display and     *)
(* the parser); plain events, their validation and conversion              *)
(* (common/src/event.rs) and event spans (common/src/span.rs).             *)
(*                                                                         *)
(* A date is the number of days since 2020-01-01 (day 0, a Wednesday);     *)
(* the calendar operators below give chrono's year / month / day /         *)
(* weekday of it in the proleptic Gregorian calendar.                      *)
(***************************************************************************)
EXTENDS Integers, Sequences, FiniteSets

\* ------------------------------------------------------------------------
\* Bounds of the model

\* largest INTERVAL of a rule
MaxInterval == 3
\* largest COUNT of a rule
MaxCount == 2
\* number of days after start_date over which the scan of next() is followed
MaxSpan == 370
\* how many times in a row a rule is put through RecurrenceRuleInstance::new
MaxNew == 2

\* ------------------------------------------------------------------------
\* Calendar (chrono::NaiveDate, Datelike, Weekday, Month)

\* the year of day 0 (the start date used throughout the tests)
EpochYear == 2020

Weekdays == <<"Mon", "Tue", "Wed", "Thu", "Fri", "Sat", "Sun">>

Months == <<"January", "February", "March", "April", "May", "June", "July",
            "August", "September", "October", "November", "December">>

\* chrono::Month::number_from_month
number_from_month(m) == CHOOSE i \in 1..12 : Months[i] = m

IsLeapYear(y) == (y % 4 = 0 /\ y % 100 # 0) \/ y % 400 = 0

DaysInYear(y) == IF IsLeapYear(y) THEN 366 ELSE 365

DaysInMonth(y, m) ==
    IF m = 2 THEN (IF IsLeapYear(y) THEN 29 ELSE 28)
    ELSE IF m \in {4, 6, 9, 11} THEN 30 ELSE 31

\* <<year, 0-based day within the year>> of r days after 1 January of y
RECURSIVE YearAndRest(_, _)
YearAndRest(y, r) ==
    IF r < DaysInYear(y) THEN <<y, r>> ELSE YearAndRest(y + 1, r - DaysInYear(y))

\* <<month, 0-based day within the month>> of r days after the 1st of month m
RECURSIVE MonthAndRest(_, _, _)
MonthAndRest(y, m, r) ==
    IF r < DaysInMonth(y, m) THEN <<m, r>> ELSE MonthAndRest(y, m + 1, r - DaysInMonth(y, m))

\* Datelike::year
year(d) == YearAndRest(EpochYear, d)[1]

\* Datelike::ordinal, the 1-based day of the year
ordinal(d) == YearAndRest(EpochYear, d)[2] + 1

\* Datelike::month, 1..12
month(d) == MonthAndRest(year(d), 1, ordinal(d) - 1)[1]

\* Datelike::day, 1..31
day(d) == MonthAndRest(year(d), 1, ordinal(d) - 1)[2] + 1

\* Datelike::weekday; day 0 is a Wednesday
weekday(d) == Weekdays[((d + 2) % 7) + 1]

\* NaiveDateHelpers::year_day (recurrence/helpers.rs): the day of the year
year_day(d) == ordinal(d)

\* Duration::num_weeks: whole weeks, truncated toward zero
num_weeks(days) == IF days >= 0 THEN days \div 7 ELSE -((-days) \div 7)

\* ------------------------------------------------------------------------
\* Rule model (common/src/recurrence/mod.rs)

\* Option<Vec<T>>
None == [some |-> FALSE]
Some(v) == [some |-> TRUE, v |-> v]
is_some(o) == o.some
is_none(o) == ~o.some

\* whether the Vec holds x: .iter().find(|e| e == x).is_some()
Contains(vec, x) == \E i \in 1..Len(vec) : vec[i] = x

RecurrenceFreq == {"Daily", "Weekly", "Monthly", "Yearly"}

\* RecurrenceLimit
Indefinite == [kind |-> "Indefinite"]
Date(d) == [kind |-> "Date", date |-> d]
Count(n) == [kind |-> "Count", count |-> n]

\* struct RecurrenceRule
RecurrenceRule(f, i, l, bm, bwn, byd, bmd, bd, bsp) ==
    [frequency |-> f, interval |-> i, limit |-> l,
     by_month |-> bm, by_week_no |-> bwn, by_year_day |-> byd,
     by_month_day |-> bmd, by_day |-> bd, by_set_pos |-> bsp]

\* ------------------------------------------------------------------------
\* RecurrenceRuleInstance::infer_stuff

\* new_by_day with the yearly branches flattened: the BYWEEKNO branch is also
\* taken when BYMONTH is set together with BYMONTHDAY
new_by_day_flat(rule, start_date) ==
    IF \/ rule.frequency = "Weekly" /\ is_none(rule.by_day)
       \/ /\ rule.frequency = "Yearly"
          /\ ~(is_some(rule.by_month) /\ is_none(rule.by_month_day))
          /\ is_some(rule.by_week_no)
          /\ is_none(rule.by_day)
    THEN Some(<<weekday(start_date)>>)
    ELSE None

\* the inferred BYDAY: set for a weekly rule without BYDAY, and for a yearly
\* rule in the BYWEEKNO branch without BYDAY
new_by_day(rule, start_date) ==
    IF \/ rule.frequency = "Weekly" /\ is_none(rule.by_day)
       \/ /\ rule.frequency = "Yearly"
          /\ is_none(rule.by_month)
          /\ is_some(rule.by_week_no)
          /\ is_none(rule.by_day)
    THEN Some(<<weekday(start_date)>>)
    ELSE None

\* new_by_month_day without the by_day.is_none() test of the monthly case
new_by_month_day_despite_by_day(rule, start_date) ==
    IF \/ /\ rule.frequency = "Monthly"
          /\ is_none(rule.by_month_day)
       \/ /\ rule.frequency = "Yearly"
          /\ is_some(rule.by_month)
          /\ is_none(rule.by_month_day)
    THEN Some(<<day(start_date)>>)
    ELSE None

\* the inferred BYMONTHDAY: set for a monthly rule without BYMONTHDAY and
\* BYDAY, and for a yearly rule in the BYMONTH branch without BYMONTHDAY
new_by_month_day(rule, start_date) ==
    IF \/ /\ rule.frequency = "Monthly"
          /\ is_none(rule.by_month_day)
          /\ is_none(rule.by_day)
       \/ /\ rule.frequency = "Yearly"
          /\ is_some(rule.by_month)
          /\ is_none(rule.by_month_day)
    THEN Some(<<day(start_date)>>)
    ELSE None

\* the inferred BYYEARDAY: set for a yearly rule in the last branch
new_by_year_day(rule, start_date) ==
    IF /\ rule.frequency = "Yearly"
       /\ is_none(rule.by_month)
       /\ is_none(rule.by_week_no)
       /\ is_none(rule.by_year_day)
    THEN Some(<<year_day(start_date)>>)
    ELSE None

\* RecurrenceRule { by_day: new_by_day, by_month_day: new_by_month_day,
\*                  by_year_day: new_by_year_day, ..rule }
infer_stuff(rule, start_date) ==
    [rule EXCEPT !.by_day = new_by_day(rule, start_date),
                 !.by_month_day = new_by_month_day(rule, start_date),
                 !.by_year_day = new_by_year_day(rule, start_date)]

\* ------------------------------------------------------------------------
\* The BY filters of RecurrenceRuleInstance. A check yields "true", "false"
\* or "panic" (panic!/unimplemented! unwinds out of next()).

\* check_by_month: by_month.iter().find(month matches).is_none()
check_by_month(rule, date) ==
    IF is_some(rule.by_month)
    THEN IF ~(\E i \in 1..Len(rule.by_month.v) :
                 number_from_month(rule.by_month.v[i]) = month(date))
         THEN "true" ELSE "false"
    ELSE "true"

check_by_week_no(rule, date) ==
    IF is_some(rule.by_week_no) THEN "panic" ELSE "true"

check_by_year_day(rule, date) ==
    IF is_some(rule.by_year_day)
    THEN IF rule.frequency \in {"Daily", "Weekly", "Monthly"}
         THEN "panic"
         ELSE IF Contains(rule.by_year_day.v, year_day(date)) THEN "true" ELSE "false"
    ELSE "true"

check_by_month_day(rule, date) ==
    IF is_some(rule.by_month_day)
    THEN IF rule.frequency = "Weekly"
         THEN "panic"
         ELSE IF Contains(rule.by_month_day.v, day(date)) THEN "true" ELSE "false"
    ELSE "true"

check_by_day(rule, date) ==
    IF is_some(rule.by_day)
    THEN IF Contains(rule.by_day.v, weekday(date)) THEN "true" ELSE "false"
    ELSE "true"

check_by_set_pos(rule, date) ==
    IF is_some(rule.by_set_pos) THEN "panic" ELSE "true"

\* a && b, short-circuit: b is evaluated only when a is true
AndThen(a, b) == IF a = "true" THEN b ELSE a

\* let fits_into_rule = check_by_month && check_by_week_no && ... ;
fits_into_rule(rule, date) ==
    AndThen(check_by_month(rule, date),
    AndThen(check_by_week_no(rule, date),
    AndThen(check_by_year_day(rule, date),
    AndThen(check_by_month_day(rule, date),
    AndThen(check_by_day(rule, date),
            check_by_set_pos(rule, date))))))

\* ------------------------------------------------------------------------
\* RRuleInstances

\* calc_uniq_weeks_between(a, b): whole weeks from b to the first Monday at
\* or after a
days_until_monday(a) == (7 - ((a + 2) % 7)) % 7
calc_uniq_weeks_between(a, b) == num_weeks((a + days_until_monday(a)) - b)

\* let freq_diff = match frequency { ... }
freq_diff(rule, current_date, last_instance_date) ==
    CASE rule.frequency = "Daily" -> current_date - last_instance_date
      [] rule.frequency = "Weekly" ->
            calc_uniq_weeks_between(current_date, last_instance_date)
      [] rule.frequency = "Monthly" ->
            IF month(last_instance_date) > month(current_date)
            THEN month(current_date) + 12 - month(last_instance_date)
            ELSE month(current_date) - month(last_instance_date)
      [] rule.frequency = "Yearly" -> year(current_date) - year(last_instance_date)

\* limit_reached with the count compared by > : one occurrence too many
limit_reached_count_gt(rule, it) ==
    CASE rule.limit.kind = "Indefinite" -> FALSE
      [] rule.limit.kind = "Date" -> it.current_date > rule.limit.date
      [] rule.limit.kind = "Count" -> it.instance_count > rule.limit.count

\* limit_reached with the date compared by >= : UNTIL taken as exclusive
limit_reached_date_ge(rule, it) ==
    CASE rule.limit.kind = "Indefinite" -> FALSE
      [] rule.limit.kind = "Date" -> it.current_date >= rule.limit.date
      [] rule.limit.kind = "Count" -> it.instance_count >= rule.limit.count

\* match limit { Date(date) => current_date > date, Count(count) =>
\* instance_count >= count }: whether the loop breaks
limit_reached(rule, it) ==
    CASE rule.limit.kind = "Indefinite" -> FALSE
      [] rule.limit.kind = "Date" -> it.current_date > rule.limit.date
      [] rule.limit.kind = "Count" -> it.instance_count >= rule.limit.count

\* the spacing test applied only when the rule has no limit
spacing_ok_unless_limited(rule, it) ==
    LET fd == freq_diff(rule, it.current_date, it.last_instance_date)
    IN  rule.limit.kind # "Indefinite" \/ fd >= rule.interval \/ fd = 0

\* freq_diff >= interval || freq_diff == 0
spacing_ok(rule, it) ==
    LET fd == freq_diff(rule, it.current_date, it.last_instance_date)
    IN  fd >= rule.interval \/ fd = 0

\* advance that leaves the date where it is
advance_stuck(rule, current_date) == current_date

\* current_date += Duration::days(interval)
advance(rule, current_date) == current_date + rule.interval

\* What one iteration of the loop of next() does in iterator state it:
\* "panic" (a filter panics), "break" (the limit ends the loop, next()
\* returns None), "emit" (next() returns the date) or "skip" (loop again).
loop_outcome(rule, it) ==
    LET fits == fits_into_rule(rule, it.current_date)
    IN  IF fits = "panic" THEN "panic"
        ELSE IF limit_reached(rule, it) THEN "break"
        ELSE IF fits = "true" /\ spacing_ok(rule, it) THEN "emit"
        ELSE "skip"

\* an iteration that moves current_date even when the limit breaks the loop
loop_iteration_break_advances(rule, it) ==
    LET o == loop_outcome(rule, it)
    IN  CASE o = "emit" ->
               [instance_count |-> it.instance_count + 1,
                last_instance_date |-> it.current_date,
                current_date |-> advance(rule, it.current_date)]
          [] o \in {"skip", "break"} -> [it EXCEPT !.current_date = advance(rule, @)]
          [] OTHER -> it

\* the iterator state after one iteration of the loop
loop_iteration(rule, it) ==
    LET o == loop_outcome(rule, it)
    IN  CASE o = "emit" ->
               [instance_count |-> it.instance_count + 1,
                last_instance_date |-> it.current_date,
                current_date |-> advance(rule, it.current_date)]
          [] o = "skip" -> [it EXCEPT !.current_date = advance(rule, @)]
          [] OTHER -> it

\* RRuleInstances::new
RRuleInstances_new(start) ==
    [instance_count |-> 0, last_instance_date |-> start, current_date |-> start]

\* ------------------------------------------------------------------------
\* State

VARIABLES
    arg_rule,        \* the rule passed to RecurrenceRuleInstance::new
    start_date,      \* RecurrenceRuleInstance.start_date
    rule,            \* RecurrenceRuleInstance.rule
    instantiations,  \* how many times the rule went through ::new
    it,              \* RRuleInstances: instance_count, last_instance_date, current_date
    pc,              \* where the caller is: "rule", "created", "loop", ...
    ret,             \* what the last completed next() returned
    text,            \* the string a rule was printed to
    parsed,          \* what parsing that string returned
    plain,           \* an EventPlain
    valid,           \* what validate_non_patch returned for it
    event,           \* what Event::try_from returned for it
    span             \* the EventSpan of the event, or one built from a duration

vars == <<arg_rule, start_date, rule, instantiations, it, pc, ret,
          text, parsed, plain, valid, event, span>>

iterVars == <<start_date, rule, instantiations, it, ret>>
textVars == <<text, parsed>>
eventVars == <<plain, valid, event, span>>

\* no rule has been printed, no plain event received
NoText == text = <<>> /\ parsed = None
NoEvent == plain = None /\ valid = None /\ event = None /\ span = None

\* ------------------------------------------------------------------------
\* Inputs

\* start dates: 2020-01-01 (Wed), 2020-02-29 (Sat), 2020-12-28 (Mon)
StartDates == {0, 59, 362}

\* UNTIL dates, as days after the start date
UntilOffsets == {-1, 14, 45}

Limits(start) ==
    {Indefinite} \cup {Count(n) : n \in 0..MaxCount}
                 \cup {Date(start + k) : k \in UntilOffsets}

ByMonths == {None, Some(<<"January">>), Some(<<"February", "March">>)}
ByWeekNos == {None, Some(<<1>>)}
ByYearDays == {None, Some(<<-1>>)}
ByMonthDays == {None, Some(<<-1>>)}
ByDays(start) == {None, Some(<<weekday(start)>>)}
BySetPos == {None, Some(<<1>>)}

\* the rules handed to the iterator
Rules(start) ==
    { RecurrenceRule(f, i, l, bm, bwn, byd, bmd, bd, bsp) :
        f \in RecurrenceFreq, i \in 1..MaxInterval, l \in Limits(start),
        bm \in ByMonths, bwn \in ByWeekNos, byd \in ByYearDays,
        bmd \in ByMonthDays, bd \in ByDays(start), bsp \in BySetPos }

\* ------------------------------------------------------------------------
\* Spec: RecurrenceRuleInstance::new(&rule, start).calculate_instances(),
\* then next() called again and again

Init ==
    /\ start_date \in StartDates
    /\ arg_rule \in Rules(start_date)
    /\ rule = infer_stuff(arg_rule, start_date)
    /\ instantiations = 1
    /\ it = RRuleInstances_new(start_date)
    /\ pc = "created"
    /\ ret = None
    /\ NoText /\ NoEvent

\* the caller calls next()
next_call ==
    /\ pc \in {"created", "returned"}
    /\ pc' = "loop"
    /\ UNCHANGED <<arg_rule, start_date, rule, instantiations, it, ret>>
    /\ UNCHANGED <<textVars, eventVars>>

InSpan == it.current_date - start_date <= MaxSpan

\* an iteration in which a filter panics
next_panic ==
    /\ pc = "loop" /\ InSpan
    /\ loop_outcome(rule, it) = "panic"
    /\ pc' = "panicked"
    /\ UNCHANGED <<arg_rule, start_date, rule, instantiations, it, ret>>
    /\ UNCHANGED <<textVars, eventVars>>

\* an iteration that breaks out of the loop: next() returns None
next_break ==
    /\ pc = "loop" /\ InSpan
    /\ loop_outcome(rule, it) = "break"
    /\ it' = loop_iteration(rule, it)
    /\ pc' = "returned"
    /\ ret' = None
    /\ UNCHANGED <<arg_rule, start_date, rule, instantiations>>
    /\ UNCHANGED <<textVars, eventVars>>

\* an iteration that matches: next() returns Some(last_instance_date)
next_emit ==
    /\ pc = "loop" /\ InSpan
    /\ loop_outcome(rule, it) = "emit"
    /\ it' = loop_iteration(rule, it)
    /\ pc' = "returned"
    /\ ret' = Some(it'.last_instance_date)
    /\ UNCHANGED <<arg_rule, start_date, rule, instantiations>>
    /\ UNCHANGED <<textVars, eventVars>>

\* an iteration that does not match: the loop goes on
next_skip ==
    /\ pc = "loop" /\ InSpan
    /\ loop_outcome(rule, it) = "skip"
    /\ it' = loop_iteration(rule, it)
    /\ UNCHANGED <<arg_rule, start_date, rule, instantiations, pc, ret>>
    /\ UNCHANGED <<textVars, eventVars>>

Next == next_call \/ next_panic \/ next_break \/ next_emit \/ next_skip

Spec == Init /\ [][Next]_vars

\* ------------------------------------------------------------------------
\* SpecInfer: a rule put through RecurrenceRuleInstance::new, and the rule
\* the instance holds put through it again with the same start date

\* 2020-09-26 (Sat) is the start date of the inference tests
InferStartDates == StartDates \cup {269}

InferRules(start) ==
    { RecurrenceRule(f, i, l, bm, bwn, byd, bmd, bd, bsp) :
        f \in RecurrenceFreq, i \in {1, MaxInterval},
        l \in {Indefinite, Count(MaxCount)},
        bm \in ByMonths, bwn \in ByWeekNos,
        byd \in {None, Some(<<1>>), Some(<<-1>>)},
        bmd \in {None, Some(<<1>>), Some(<<day(start), 15>>)},
        bd \in {None, Some(<<weekday(start)>>), Some(<<"Mon", "Thu">>)},
        bsp \in BySetPos }

InitInfer ==
    /\ start_date \in InferStartDates
    /\ arg_rule \in InferRules(start_date)
    /\ rule = arg_rule
    /\ instantiations = 0
    /\ it = RRuleInstances_new(start_date)
    /\ pc = "rule"
    /\ ret = None
    /\ NoText /\ NoEvent

\* RecurrenceRuleInstance::new(&rule, start_date)
new ==
    /\ instantiations < MaxNew
    /\ rule' = infer_stuff(rule, start_date)
    /\ instantiations' = instantiations + 1
    /\ pc' = "instance"
    /\ UNCHANGED <<arg_rule, start_date, it, ret>>
    /\ UNCHANGED <<textVars, eventVars>>

NextInfer == new

SpecInfer == InitInfer /\ [][NextInfer]_vars

\* ------------------------------------------------------------------------
\* Claims about the inference (SpecInfer)

ByFields == {"by_month", "by_week_no", "by_year_day", "by_month_day", "by_day", "by_set_pos"}

\* the field was absent from the rule passed in and is present afterwards
Inferred(f) == is_none(arg_rule[f]) /\ is_some(rule[f])

\* C2: after RecurrenceRuleInstance::new, every BY filter that is present in
\* the rule passed in is present with the same value in the rule the
\* instance holds.
C2_UserFiltersKept ==
    instantiations = 1 =>
        \A f \in ByFields : is_some(arg_rule[f]) => rule[f] = arg_rule[f]

\* a rule to which no inference rule of the instantiator applies
Explicit(r) ==
    /\ r.frequency = "Weekly" => is_some(r.by_day)
    /\ r.frequency = "Monthly" => is_some(r.by_month_day) \/ is_some(r.by_day)
    /\ r.frequency = "Yearly" =>
          /\ is_some(r.by_month) => is_some(r.by_month_day)
          /\ is_none(r.by_month) /\ is_some(r.by_week_no) => is_some(r.by_day)
          /\ is_none(r.by_month) /\ is_none(r.by_week_no) => is_some(r.by_year_day)

\* C3: the inference is idempotent: a rule that went through ::new is left
\* unchanged by going through it again with the same start date, and a
\* rule whose applicable BY filters are all present is returned unchanged.
C3_InferenceIdempotent ==
    [][ /\ instantiations >= 1 => rule' = rule
        /\ Explicit(rule) => rule' = rule ]_vars

\* C9 as claimed: for a yearly rule the first of (a) BYMONTH set and
\* BYMONTHDAY absent, (b) BYWEEKNO set and BYDAY absent, (c) BYYEARDAY
\* absent whose whole condition holds is applied; at most one field is
\* inferred and BYYEARDAY is not inferred when (a) or (b) applies.
C9_FirstWholeConditionApplies ==
    (instantiations = 1 /\ arg_rule.frequency = "Yearly") =>
        LET a == is_some(arg_rule.by_month) /\ is_none(arg_rule.by_month_day)
            b == ~a /\ is_some(arg_rule.by_week_no) /\ is_none(arg_rule.by_day)
            c == ~a /\ ~b /\ is_none(arg_rule.by_year_day)
        IN  /\ a => rule.by_month_day = Some(<<day(start_date)>>)
            /\ b => rule.by_day = Some(<<weekday(start_date)>>)
            /\ c => rule.by_year_day = Some(<<year_day(start_date)>>)
            /\ Cardinality({f \in ByFields : Inferred(f)}) <= 1
            /\ (a \/ b) => ~Inferred("by_year_day")

\* C9, amended: for a yearly rule the branch is chosen by the first of
\* (a) BYMONTH set, (b) BYWEEKNO set, (c) neither; in the chosen branch its
\* field (BYMONTHDAY, BYDAY, BYYEARDAY) is inferred from the start date
\* exactly when that field is absent, and no other field is inferred.
C9_YearlyBranchByFirstFilter ==
    (instantiations = 1 /\ arg_rule.frequency = "Yearly") =>
        LET a == is_some(arg_rule.by_month)
            b == ~a /\ is_some(arg_rule.by_week_no)
            c == ~a /\ ~b
        IN  /\ Inferred("by_month_day") <=> (a /\ is_none(arg_rule.by_month_day))
            /\ Inferred("by_day") <=> (b /\ is_none(arg_rule.by_day))
            /\ Inferred("by_year_day") <=> (c /\ is_none(arg_rule.by_year_day))
            /\ Inferred("by_month_day") => rule.by_month_day = Some(<<day(start_date)>>)
            /\ Inferred("by_day") => rule.by_day = Some(<<weekday(start_date)>>)
            /\ Inferred("by_year_day") => rule.by_year_day = Some(<<year_day(start_date)>>)
            /\ \A f \in {"by_month", "by_week_no", "by_set_pos"} : ~Inferred(f)

\* a yearly rule with BYMONTH and BYMONTHDAY set, BYWEEKNO set and BYDAY
\* absent has been instantiated: the BYMONTH branch was chosen and nothing
\* was inferred
C9_Witness ==
    /\ instantiations = 1
    /\ arg_rule.frequency = "Yearly"
    /\ is_some(arg_rule.by_month) /\ is_some(arg_rule.by_month_day)
    /\ is_some(arg_rule.by_week_no) /\ is_none(arg_rule.by_day)
    /\ is_none(rule.by_day)

\* C10: after instantiation a weekly rule without BYDAY has
\* by_day = [weekday(start_date)], a monthly rule without BYMONTHDAY and
\* BYDAY has by_month_day = [day_of_month(start_date)], and a daily rule or
\* a monthly rule with BYDAY has no field inferred.
C10_NonYearlyInference ==
    instantiations = 1 =>
        /\ (arg_rule.frequency = "Weekly" /\ is_none(arg_rule.by_day))
              => rule.by_day = Some(<<weekday(start_date)>>)
        /\ (/\ arg_rule.frequency = "Monthly"
            /\ is_none(arg_rule.by_month_day)
            /\ is_none(arg_rule.by_day))
              => rule.by_month_day = Some(<<day(start_date)>>)
        /\ (\/ arg_rule.frequency = "Daily"
            \/ arg_rule.frequency = "Monthly" /\ is_some(arg_rule.by_day))
              => \A f \in ByFields : ~Inferred(f)

\* FREQ=MONTHLY from 2020-09-26 has been instantiated to BYMONTHDAY=26
C10_Witness ==
    /\ instantiations = 1
    /\ start_date = 269
    /\ arg_rule.frequency = "Monthly"
    /\ is_none(arg_rule.by_month_day) /\ is_none(arg_rule.by_day)
    /\ rule.by_month_day = Some(<<26>>)

\* ------------------------------------------------------------------------
\* Claims about the occurrence iterator (Spec)

\* the call of next() in progress returns a date in this step
Emits == pc = "loop" /\ pc' = "returned" /\ is_some(ret')

\* the call of next() in progress returns None in this step
Ends == pc = "loop" /\ pc' = "returned" /\ is_none(ret')

\* the filter predicate of the instantiated rule r at date d, for the
\* filters BYMONTH, BYYEARDAY, BYMONTHDAY and BYDAY
MatchesFilters(r, d) ==
    /\ is_some(r.by_month) =>
          \E i \in 1..Len(r.by_month.v) : number_from_month(r.by_month.v[i]) = month(d)
    /\ is_some(r.by_year_day) => Contains(r.by_year_day.v, year_day(d))
    /\ is_some(r.by_month_day) => Contains(r.by_month_day.v, day(d))
    /\ is_some(r.by_day) => Contains(r.by_day.v, weekday(d))

\* C1: every date returned by next() matches every BY filter present in
\* the instantiated rule (month in by_month, day of year in by_year_day,
\* day of month in by_month_day, weekday in by_day).
C1_EmittedMatchesFilters ==
    (pc = "returned" /\ is_some(ret)) => MatchesFilters(rule, ret.v)

\* C4: the first date returned by the iterator, if any, is start_date.
C4_FirstIsStartDate ==
    (pc = "returned" /\ is_some(ret) /\ it.instance_count = 1) => ret.v = start_date

\* C5: the dates returned by successive calls of next() are strictly
\* ascending: a returned date is later than the date returned before it
\* (the previous return value, and the last_instance_date the iterator
\* recorded for it).
C5_StrictlyAscending ==
    [][ Emits =>
          /\ is_some(ret) => ret'.v > ret.v
          /\ it.instance_count >= 1 => ret'.v > it.last_instance_date ]_vars

\* two dates have been returned, the second later than the start date
C5_Witness ==
    /\ pc = "returned" /\ is_some(ret)
    /\ it.instance_count = 2
    /\ ret.v > start_date

\* the same rule with limit Indefinite
Unlimited(r) == [r EXCEPT !.limit = Indefinite]

\* C6: under Count(N) every returned date raises the count of returned
\* dates by one and never above N; as long as fewer than N dates were
\* returned each loop iteration is the one the rule with limit Indefinite
\* performs, so the dates are the first N of that rule; once N dates were
\* returned next() returns no further date and leaves the iterator as it is.
C6_CountLimit ==
    [][ rule.limit.kind = "Count" =>
          LET N == rule.limit.count IN
          /\ it'.instance_count <= N
          /\ Emits => it'.instance_count = it.instance_count + 1
          /\ Ends => it.instance_count = N
          /\ (pc = "loop" /\ it.instance_count < N) =>
                /\ loop_outcome(rule, it) = loop_outcome(Unlimited(rule), it)
                /\ it' = loop_iteration(Unlimited(rule), it)
                /\ Emits => ret' = Some(it.current_date)
          /\ (pc = "loop" /\ it.instance_count >= N) =>
                /\ it' = it
                /\ pc' \in {"returned", "panicked"}
                /\ pc' = "returned" => is_none(ret') ]_vars

\* a rule with COUNT=2 has returned two dates and then None
C6_Witness ==
    /\ rule.limit = Count(2)
    /\ pc = "returned" /\ is_none(ret)
    /\ it.instance_count = 2
    /\ it.last_instance_date > start_date

\* C7: under Until(U) no returned date is later than U; a candidate date
\* equal to U that fits the rule and its spacing is returned; and at the
\* first candidate date later than U next() returns no date and the scan
\* does not go on.
C7_UntilLimit ==
    [][ rule.limit.kind = "Date" =>
          LET U == rule.limit.date IN
          /\ Emits => ret'.v <= U
          /\ (/\ pc = "loop"
              /\ it.current_date = U
              /\ fits_into_rule(rule, U) = "true"
              /\ spacing_ok(rule, it)) => (Emits /\ ret' = Some(U))
          /\ Ends => (it.current_date > U /\ it' = it)
          /\ (pc = "loop" /\ it.current_date <= U) => ~Ends
          /\ (pc = "loop" /\ it.current_date > U) =>
                /\ it' = it
                /\ pc' \in {"returned", "panicked"}
                /\ pc' = "returned" => is_none(ret') ]_vars

\* a rule with UNTIL=U has returned the date U itself, then None
C7_Witness ==
    /\ rule.limit.kind = "Date"
    /\ pc = "returned" /\ is_none(ret)
    /\ it.instance_count >= 2
    /\ it.last_instance_date = rule.limit.date
    /\ it.current_date > rule.limit.date

\* C8: a weekly rule with interval k and no BY filter other than BYDAY,
\* BYDAY being absent or [weekday(start_date)], returns start_date + 7*k*n
\* as its (n+1)-th date.
C8_WeeklySameWithExplicitByDay ==
    (/\ arg_rule.frequency = "Weekly"
     /\ \A f \in ByFields \ {"by_day"} : is_none(arg_rule[f])
     /\ arg_rule.by_day \in {None, Some(<<weekday(start_date)>>)}
     /\ pc = "returned" /\ is_some(ret))
        => ret.v = start_date + 7 * arg_rule.interval * (it.instance_count - 1)

\* C8 for the rules without BYDAY: the inferred BYDAY gives
\* start_date + 7*k*n
C8_WeeklyInferredByDay ==
    (/\ arg_rule.frequency = "Weekly"
     /\ \A f \in ByFields : is_none(arg_rule[f])
     /\ pc = "returned" /\ is_some(ret))
        => ret.v = start_date + 7 * arg_rule.interval * (it.instance_count - 1)

\* ------------------------------------------------------------------------
\* SpecNoMatch: the iterator over rules whose BYMONTH names all twelve
\* months, which check_by_month lets no date pass

NoMatchRules ==
    { RecurrenceRule(f, i, l, Some(Months), bwn, None, None, None, bsp) :
        f \in RecurrenceFreq, i \in 1..MaxInterval,
        l \in {Indefinite} \cup {Count(n) : n \in 1..MaxCount},
        bwn \in ByWeekNos, bsp \in BySetPos }

InitNoMatch ==
    /\ start_date \in StartDates
    /\ arg_rule \in NoMatchRules
    /\ rule = infer_stuff(arg_rule, start_date)
    /\ instantiations = 1
    /\ it = RRuleInstances_new(start_date)
    /\ pc = "created"
    /\ ret = None
    /\ NoText /\ NoEvent

\* the steps of next() these rules can take
NextNoMatch == next_call \/ next_skip

SpecNoMatch == InitNoMatch /\ [][NextNoMatch]_vars

\* under SpecNoMatch no iteration panics, breaks or returns a date
NoMatchOnlySkips == (pc = "loop" /\ InSpan) => loop_outcome(rule, it) = "skip"

\* ------------------------------------------------------------------------
\* Claims about rule-domain errors and the scan (Spec, SpecNoMatch)

\* a BY filter combined with a frequency it is not valid for
IncompatibleFilter(r) ==
    \/ is_some(r.by_year_day) /\ r.frequency \in {"Daily", "Weekly", "Monthly"}
    \/ is_some(r.by_month_day) /\ r.frequency = "Weekly"

\* C11: a rule with BYYEARDAY under Daily, Weekly or Monthly, or with
\* BYMONTHDAY under Weekly, is never expanded: no call of next() on it
\* returns (a date, or an ordinary end); it ends in the rule-domain error.
C11_IncompatibleFilterIsAnError ==
    IncompatibleFilter(arg_rule) => pc # "returned"

\* a filter the iterator does not implement
UnsupportedFilter(r) == is_some(r.by_set_pos) \/ is_some(r.by_week_no)

\* C12: a rule with BYSETPOS or BYWEEKNO never returns a date and never
\* ends as an ordinary sequence: no call of next() on it returns.
C12_UnsupportedFilterIsAnError ==
    UnsupportedFilter(arg_rule) => pc # "returned"

\* C13: every call of next() ends: the scan of a call in progress never
\* goes past the horizon of MaxSpan days after start_date.
C13_ScanStopsAtHorizon ==
    pc = "loop" => InSpan

\* C18: negative BYMONTHDAY / BYYEARDAY count from the end of the period:
\* a monthly rule with BYMONTHDAY=-1 returns only last days of a month and
\* a yearly rule with BYYEARDAY=-1 only last days of a year.
C18_NegativeCountsFromEnd ==
    (pc = "returned" /\ is_some(ret)) =>
        /\ (arg_rule.frequency = "Monthly" /\ arg_rule.by_month_day = Some(<<-1>>))
              => day(ret.v) = DaysInMonth(year(ret.v), month(ret.v))
        /\ (arg_rule.frequency = "Yearly" /\ arg_rule.by_year_day = Some(<<-1>>))
              => year_day(ret.v) = DaysInYear(year(ret.v))

\* C19: every iteration of the scan that moves current_date moves it by
\* exactly one day, whatever the interval.
C19_ScanAdvancesOneDay ==
    [][ (pc = "loop" /\ it'.current_date # it.current_date)
            => it'.current_date = it.current_date + 1 ]_vars

\* the Monday of the calendar week of d
MondayOf(d) == d - ((d + 2) % 7)

\* C20: two dates returned one after the other by a weekly rule with
\* interval k are in the same calendar week (same Monday) or at least k
\* calendar weeks apart.
C20_WeeklySpacing ==
    [][ (arg_rule.frequency = "Weekly" /\ Emits /\ it.instance_count >= 1) =>
          LET a == MondayOf(ret'.v)
              b == MondayOf(it.last_instance_date)
          IN  a = b \/ a - b >= 7 * arg_rule.interval ]_vars

\* ------------------------------------------------------------------------
\* RRULE text (common/src/recurrence/mod.rs): a string is a sequence of
\* characters

DigitChars == <<"0", "1", "2", "3", "4", "5", "6", "7", "8", "9">>

\* u32 / the magnitude of an i32 in decimal
RECURSIVE nat_to_string(_)
nat_to_string(n) ==
    IF n < 10 THEN <<DigitChars[n + 1]>>
    ELSE nat_to_string(n \div 10) \o <<DigitChars[(n % 10) + 1]>>

\* format!("{}", x) for an integer
to_string(n) == IF n < 0 THEN <<"-">> \o nat_to_string(-n) ELSE nat_to_string(n)

\* s padded with zeros on the left to w characters
RECURSIVE zero_pad(_, _)
zero_pad(s, w) == IF Len(s) >= w THEN s ELSE zero_pad(<<"0">> \o s, w)

\* date.format("%Y%m%d")
format_Ymd(d) ==
    zero_pad(nat_to_string(year(d)), 4) \o zero_pad(nat_to_string(month(d)), 2)
        \o zero_pad(nat_to_string(day(d)), 2)

\* Vec<String>::join(sep)
RECURSIVE join(_, _)
join(strs, sep) ==
    IF strs = <<>> THEN <<>>
    ELSE IF Len(strs) = 1 THEN strs[1]
    ELSE strs[1] \o sep \o join(Tail(strs), sep)

vec_to_str(vec) == join([i \in 1..Len(vec) |-> to_string(vec[i])], <<",">>)

\* impl Display for RecurrenceFreq
freq_to_string(f) ==
    CASE f = "Daily" -> <<"D", "A", "I", "L", "Y">>
      [] f = "Weekly" -> <<"W", "E", "E", "K", "L", "Y">>
      [] f = "Monthly" -> <<"M", "O", "N", "T", "H", "L", "Y">>
      [] f = "Yearly" -> <<"Y", "E", "A", "R", "L", "Y">>

\* the two-letter code of a weekday
weekday_code(w) ==
    CASE w = "Mon" -> <<"M", "O">> [] w = "Tue" -> <<"T", "U">>
      [] w = "Wed" -> <<"W", "E">> [] w = "Thu" -> <<"T", "H">>
      [] w = "Fri" -> <<"F", "R">> [] w = "Sat" -> <<"S", "A">>
      [] w = "Sun" -> <<"S", "U">>

KEY_FREQ == <<"F", "R", "E", "Q">>
KEY_INTERVAL == <<"I", "N", "T", "E", "R", "V", "A", "L">>
KEY_COUNT == <<"C", "O", "U", "N", "T">>
KEY_UNTIL == <<"U", "N", "T", "I", "L">>
KEY_BYMONTH == <<"B", "Y", "M", "O", "N", "T", "H">>
KEY_BYWEEKNO == <<"B", "Y", "W", "E", "E", "K", "N", "O">>
KEY_BYYEARDAY == <<"B", "Y", "Y", "E", "A", "R", "D", "A", "Y">>
KEY_BYMONTHDAY == <<"B", "Y", "M", "O", "N", "T", "H", "D", "A", "Y">>
KEY_BYDAY == <<"B", "Y", "D", "A", "Y">>
KEY_BYSETPOS == <<"B", "Y", "S", "E", "T", "P", "O", "S">>

\* format!("KEY={}", value)
key_value(key, value) == key \o <<"=">> \o value

\* .into_iter().filter_map(|x| x).collect()
RECURSIVE filter_map(_)
filter_map(opts) ==
    IF opts = <<>> THEN <<>>
    ELSE IF is_some(Head(opts)) THEN <<Head(opts).v>> \o filter_map(Tail(opts))
    ELSE filter_map(Tail(opts))

\* the INTERVAL part left out up to interval 2
fmt_interval_above_two(r) ==
    IF r.interval > 2 THEN Some(key_value(KEY_INTERVAL, to_string(r.interval))) ELSE None

\* let interval = if self.interval > 1 { Some("INTERVAL=..") } else { None }
fmt_interval(r) ==
    IF r.interval > 1 THEN Some(key_value(KEY_INTERVAL, to_string(r.interval))) ELSE None

\* let limit = match self.limit { ... }
fmt_limit(r) ==
    CASE r.limit.kind = "Indefinite" -> None
      [] r.limit.kind = "Date" -> Some(key_value(KEY_UNTIL, format_Ymd(r.limit.date)))
      [] r.limit.kind = "Count" -> Some(key_value(KEY_COUNT, to_string(r.limit.count)))

\* impl Display for RecurrenceRule
fmt(r) ==
    LET year_days(x) == key_value(KEY_BYYEARDAY, vec_to_str(x))
        week_nos(x) == key_value(KEY_BYWEEKNO, vec_to_str(x))
        month_days(x) == key_value(KEY_BYMONTHDAY, vec_to_str(x))
        set_pos(x) == key_value(KEY_BYSETPOS, vec_to_str(x))
        months(x) ==
            key_value(KEY_BYMONTH,
                join([i \in 1..Len(x) |-> to_string(number_from_month(x[i]))], <<",">>))
        days(x) ==
            key_value(KEY_BYDAY, join([i \in 1..Len(x) |-> weekday_code(x[i])], <<",">>))
        freq == key_value(KEY_FREQ, freq_to_string(r.frequency))
        by_year_day == IF is_some(r.by_year_day) THEN Some(year_days(r.by_year_day.v)) ELSE None
        by_week_no == IF is_some(r.by_week_no) THEN Some(week_nos(r.by_week_no.v)) ELSE None
        by_month_day == IF is_some(r.by_month_day) THEN Some(month_days(r.by_month_day.v)) ELSE None
        by_set_pos == IF is_some(r.by_set_pos) THEN Some(set_pos(r.by_set_pos.v)) ELSE None
        by_month == IF is_some(r.by_month) THEN Some(months(r.by_month.v)) ELSE None
        by_day == IF is_some(r.by_day) THEN Some(days(r.by_day.v)) ELSE None
    IN  join(filter_map(<<Some(freq), fmt_interval(r), by_year_day, by_day, by_week_no,
                          by_month_day, by_set_pos, by_month, fmt_limit(r)>>), <<";">>)

\* ------------------------------------------------------------------------
\* The RRULE parser (recurrence/parser.rs), after its grammar: a list of
\* KEY=VALUE parts separated by ";"

Ok(v) == [ok |-> TRUE, v |-> v]
Err(e) == [ok |-> FALSE, e |-> e]

\* s.split(c)
RECURSIVE split(_, _)
split(s, c) ==
    IF \A i \in 1..Len(s) : s[i] # c THEN <<s>>
    ELSE LET i == CHOOSE i \in 1..Len(s) : s[i] = c /\ \A j \in 1..(i - 1) : s[j] # c
         IN  <<SubSeq(s, 1, i - 1)>> \o split(SubSeq(s, i + 1, Len(s)), c)

is_nat(s) == s # <<>> /\ \A i \in 1..Len(s) : \E k \in 1..10 : DigitChars[k] = s[i]

digit_value(c) == (CHOOSE k \in 1..10 : DigitChars[k] = c) - 1

RECURSIVE nat_value(_)
nat_value(s) ==
    IF s = <<>> THEN 0
    ELSE nat_value(SubSeq(s, 1, Len(s) - 1)) * 10 + digit_value(s[Len(s)])

is_int(s) == is_nat(s) \/ (s # <<>> /\ s[1] = "-" /\ is_nat(Tail(s)))

int_value(s) == IF s[1] = "-" THEN -nat_value(Tail(s)) ELSE nat_value(s)

\* days from 1 January of EpochYear to 1 January of y
RECURSIVE days_before_year(_)
days_before_year(y) ==
    IF y = EpochYear THEN 0
    ELSE IF y > EpochYear THEN days_before_year(y - 1) + DaysInYear(y - 1)
    ELSE days_before_year(y + 1) - DaysInYear(y)

\* days from 1 January of y to the 1st of month m
RECURSIVE days_before_month(_, _)
days_before_month(y, m) ==
    IF m = 1 THEN 0 ELSE days_before_month(y, m - 1) + DaysInMonth(y, m - 1)

\* NaiveDate::from_ymd
from_ymd(y, m, d) == days_before_year(y) + days_before_month(y, m) + d - 1

BadValue(key) == Err([kind |-> "BadValue", key |-> key])
OutOfRange(key) == Err([kind |-> "OutOfRange", key |-> key])

Keys == {KEY_FREQ, KEY_INTERVAL, KEY_COUNT, KEY_UNTIL, KEY_BYMONTH, KEY_BYWEEKNO,
         KEY_BYYEARDAY, KEY_BYMONTHDAY, KEY_BYDAY, KEY_BYSETPOS}

\* FREQ = DAILY | WEEKLY | MONTHLY | YEARLY
parse_freq(value) ==
    IF \E f \in RecurrenceFreq : freq_to_string(f) = value
    THEN Ok(CHOOSE f \in RecurrenceFreq : freq_to_string(f) = value)
    ELSE BadValue(KEY_FREQ)

\* INTERVAL, COUNT = positive integer
parse_positive(value, key) ==
    IF ~is_int(value) THEN BadValue(key)
    ELSE IF int_value(value) < 1 THEN OutOfRange(key)
    ELSE Ok(int_value(value))

\* UNTIL = YYYYMMDD
parse_until(value) ==
    IF ~(Len(value) = 8 /\ is_nat(value)) THEN BadValue(KEY_UNTIL)
    ELSE LET y == nat_value(SubSeq(value, 1, 4))
             m == nat_value(SubSeq(value, 5, 6))
             d == nat_value(SubSeq(value, 7, 8))
         IN  IF m \in 1..12 /\ d \in 1..DaysInMonth(y, m)
             THEN Ok(Date(from_ymd(y, m, d)))
             ELSE BadValue(KEY_UNTIL)

\* a comma-separated list of integers n with 1 <= |n| <= max; max = 0: any
\* nonzero integer
parse_ints(value, key, max) ==
    LET items == split(value, ",")
        Idx == 1..Len(items)
    IN  IF \E i \in Idx : ~is_int(items[i]) THEN BadValue(key)
        ELSE LET ns == [i \in Idx |-> int_value(items[i])]
             IN  IF \E i \in Idx : ns[i] = 0 \/ (max > 0 /\ (ns[i] > max \/ ns[i] < -max))
                 THEN OutOfRange(key)
                 ELSE Ok(Some(ns))

\* BYMONTH = comma-separated integers 1..12
parse_months(value) ==
    LET items == split(value, ",")
        Idx == 1..Len(items)
    IN  IF \E i \in Idx : ~is_int(items[i]) THEN BadValue(KEY_BYMONTH)
        ELSE IF \E i \in Idx : int_value(items[i]) \notin 1..12 THEN OutOfRange(KEY_BYMONTH)
        ELSE Ok(Some([i \in Idx |-> Months[int_value(items[i])]]))

\* BYDAY = comma-separated weekday codes
parse_days(value) ==
    LET items == split(value, ",")
        Idx == 1..Len(items)
    IN  IF \E i \in Idx : \A k \in 1..7 : weekday_code(Weekdays[k]) # items[i]
        THEN BadValue(KEY_BYDAY)
        ELSE Ok(Some([i \in Idx |->
                        CHOOSE w \in {Weekdays[k] : k \in 1..7} : weekday_code(w) = items[i]]))

\* parser::parse
parse(s) ==
    LET parts == split(s, ";")
        Idx == 1..Len(parts)
        kv(i) == split(parts[i], "=")
        key(i) == kv(i)[1]
        has(k) == \E i \in Idx : key(i) = k
        value(k) == kv(CHOOSE i \in Idx : key(i) = k)[2]
        opt(k, r) == IF has(k) THEN r ELSE Ok(None)
        fields ==
            <<parse_freq(value(KEY_FREQ)),
              IF has(KEY_INTERVAL) THEN parse_positive(value(KEY_INTERVAL), KEY_INTERVAL)
              ELSE Ok(1),
              IF has(KEY_COUNT)
              THEN LET c == parse_positive(value(KEY_COUNT), KEY_COUNT)
                   IN  IF c.ok THEN Ok(Count(c.v)) ELSE c
              ELSE IF has(KEY_UNTIL) THEN parse_until(value(KEY_UNTIL))
              ELSE Ok(Indefinite),
              opt(KEY_BYMONTH, parse_months(value(KEY_BYMONTH))),
              opt(KEY_BYWEEKNO, parse_ints(value(KEY_BYWEEKNO), KEY_BYWEEKNO, 53)),
              opt(KEY_BYYEARDAY, parse_ints(value(KEY_BYYEARDAY), KEY_BYYEARDAY, 366)),
              opt(KEY_BYMONTHDAY, parse_ints(value(KEY_BYMONTHDAY), KEY_BYMONTHDAY, 31)),
              opt(KEY_BYDAY, parse_days(value(KEY_BYDAY))),
              opt(KEY_BYSETPOS, parse_ints(value(KEY_BYSETPOS), KEY_BYSETPOS, 0))>>
        Bad == {i \in 1..Len(fields) : ~fields[i].ok}
    IN  IF \E i \in Idx : key(i) \notin Keys THEN Err([kind |-> "UnknownKey"])
        ELSE IF \E i \in Idx : Len(kv(i)) # 2 THEN BadValue(key(CHOOSE i \in Idx : Len(kv(i)) # 2))
        ELSE IF \E i, j \in Idx : i # j /\ key(i) = key(j) THEN Err([kind |-> "DuplicateKey"])
        ELSE IF ~has(KEY_FREQ) THEN Err([kind |-> "MissingFreq"])
        ELSE IF has(KEY_COUNT) /\ has(KEY_UNTIL) THEN Err([kind |-> "ConflictingLimit"])
        ELSE IF Bad # {} THEN fields[CHOOSE i \in Bad : \A j \in Bad : i <= j]
        ELSE Ok(RecurrenceRule(fields[1].v, fields[2].v, fields[3].v, fields[4].v,
                               fields[5].v, fields[6].v, fields[7].v, fields[8].v,
                               fields[9].v))

\* ------------------------------------------------------------------------
\* SpecRoundTrip: a rule printed with Display (to_string), and the string
\* parsed with RecurrenceRule::new

\* rules within the parser's grammar
RoundTripRules ==
    { RecurrenceRule(f, i, l, bm, bwn, byd, bmd, bd, bsp) :
        f \in RecurrenceFreq, i \in 1..MaxInterval,
        l \in {Indefinite} \cup {Count(n) : n \in {1, MaxCount, 10}}
                           \cup {Date(d) : d \in {0, 59, 345}},
        bm \in {None, Some(<<"January", "December">>)},
        bwn \in {None, Some(<<-53, 1>>)},
        byd \in {None, Some(<<-1, 366>>)},
        bmd \in {None, Some(<<1, 15>>)},
        bd \in {None, Some(<<"Mon", "Sun">>)},
        bsp \in {None, Some(<<-1>>)} }

InitRoundTrip ==
    /\ arg_rule \in RoundTripRules
    /\ start_date = 0
    /\ rule = arg_rule
    /\ instantiations = 0
    /\ it = RRuleInstances_new(start_date)
    /\ pc = "rule"
    /\ ret = None
    /\ NoText /\ NoEvent

\* rule.to_string()
to_string_call ==
    /\ pc = "rule"
    /\ text' = fmt(arg_rule)
    /\ pc' = "printed"
    /\ UNCHANGED <<arg_rule, iterVars, parsed, eventVars>>

\* RecurrenceRule::new(&text)
RecurrenceRule_new ==
    /\ pc = "printed"
    /\ parsed' = parse(text)
    /\ pc' = "parsed"
    /\ UNCHANGED <<arg_rule, iterVars, text, eventVars>>

NextRoundTrip == to_string_call \/ RecurrenceRule_new

SpecRoundTrip == InitRoundTrip /\ [][NextRoundTrip]_vars

\* C14: parsing the string a rule is printed to gives back the rule
\* itself: same frequency, interval, limit and BY lists, absent filters
\* still absent.
C14_RoundTrip ==
    pc = "parsed" => parsed = Ok(arg_rule)

\* a rule with INTERVAL, UNTIL and BY lists (negative values among them)
\* has been printed and parsed
C14_Witness ==
    /\ pc = "parsed"
    /\ arg_rule.interval > 1
    /\ arg_rule.limit.kind = "Date"
    /\ is_some(arg_rule.by_year_day) /\ is_some(arg_rule.by_day)
    /\ is_some(arg_rule.by_month) /\ is_none(arg_rule.by_week_no)
    /\ parsed.ok

\* ------------------------------------------------------------------------
\* Events and spans (common/src/event.rs, common/src/span.rs).  A time is a
\* number of seconds after midnight, a date-time a number of seconds after
\* day 0 at midnight, a Duration a number of seconds.

\* NaiveDate::and_time
and_time(d, t) == d * 86400 + t

\* Duration::num_days: whole days, truncated toward zero
num_days(secs) == IF secs >= 0 THEN secs \div 86400 ELSE -((-secs) \div 86400)

EventDateSpan(start, end) == [kind |-> "Date", start |-> start, end |-> end]
EventDateTimeSpan(start, end) == [kind |-> "DateTime", start |-> start, end |-> end]

\* EventSpan::from_date_and_duration
from_date_and_duration(start, duration) ==
    EventDateSpan(start, start + num_days(duration))

\* EventSpan::from_date_time_and_duration
from_date_time_and_duration(start, duration) ==
    EventDateTimeSpan(start, start + duration)

RecurrencePlain(rrule, exdates, rdates) ==
    [rrule |-> rrule, exdates |-> exdates, rdates |-> rdates]

EventPlain(id, parent_id, sd, st, ed, et, recurrence, last_modified) ==
    [id |-> id, parent_id |-> parent_id, start_date |-> sd, start_time |-> st,
     end_date |-> ed, end_time |-> et, recurrence |-> recurrence,
     last_modified |-> last_modified]

\* Option::unwrap_or
unwrap_or(o, default) == IF is_some(o) THEN o.v ELSE default

\* validate_non_patch asking only for the rrule of a recurrence
validate_non_patch_rrule_only(p) ==
    IF is_none(p.start_date) \/ is_none(p.end_date) THEN FALSE
    ELSE IF is_some(p.start_time) # is_some(p.end_time) THEN FALSE
    ELSE IF is_some(p.recurrence) /\ is_none(p.recurrence.v.rrule) THEN FALSE
    ELSE TRUE

\* EventPlain::validate_non_patch
validate_non_patch(p) ==
    IF is_none(p.start_date) \/ is_none(p.end_date) THEN FALSE
    ELSE IF is_some(p.start_time) # is_some(p.end_time) THEN FALSE
    ELSE IF is_some(p.recurrence)
            /\ (\/ is_none(p.recurrence.v.rrule)
                \/ is_none(p.recurrence.v.exdates)
                \/ is_none(p.recurrence.v.rdates)) THEN FALSE
    ELSE TRUE

\* EventRecurrence { rule: parsed.map_err(RRuleParseError)?, rdates, exdates }
EventRecurrence(parsed_rule, rdates, exdates) ==
    IF ~parsed_rule.ok THEN Err(<<"RRuleParseError", parsed_rule.e>>)
    ELSE Ok([rule |-> parsed_rule.v, rdates |-> rdates, exdates |-> exdates])

\* the conversion of a recurrence asking for exdates and rdates as well
EventRecurrence_try_from_all_set(value) ==
    IF is_none(value.rrule) \/ is_none(value.exdates) \/ is_none(value.rdates)
    THEN Err("MissingField")
    ELSE EventRecurrence(parse(value.rrule.v), value.rdates.v, value.exdates.v)

\* impl TryFrom<RecurrencePlain> for EventRecurrence
EventRecurrence_try_from(value) ==
    IF is_none(value.rrule) THEN Err("MissingField")
    ELSE EventRecurrence(parse(value.rrule.v),
                         unwrap_or(value.rdates, <<>>),
                         unwrap_or(value.exdates, <<>>))

\* Event::Recurring(EventRecurring { id, span, recurrence: recurrence?, last_modified })
EventRecurring(id, sp, recurrence, last_modified) ==
    IF ~recurrence.ok THEN recurrence
    ELSE Ok([kind |-> "Recurring", id |-> id, span |-> sp,
             recurrence |-> recurrence.v, last_modified |-> last_modified])

\* impl TryFrom<EventPlain> for Event
Event_try_from(value) ==
    IF is_none(value.start_date) \/ is_none(value.end_date) THEN Err("MissingField")
    ELSE IF is_some(value.start_time) # is_some(value.end_time) THEN Err("InvalidSpan")
    ELSE IF is_none(value.id) THEN Err("MissingField")
    ELSE IF is_none(value.last_modified) THEN Err("MissingField")
    ELSE LET sp == IF is_some(value.start_time)
                   THEN EventDateTimeSpan(and_time(value.start_date.v, value.start_time.v),
                                          and_time(value.end_date.v, value.end_time.v))
                   ELSE EventDateSpan(value.start_date.v, value.end_date.v)
         IN  IF is_some(value.recurrence)
             THEN EventRecurring(value.id.v, sp,
                                 EventRecurrence_try_from(value.recurrence.v),
                                 value.last_modified.v)
             ELSE Ok([kind |-> "Single", id |-> value.id.v,
                      parent_id |-> value.parent_id,
                      last_modified |-> value.last_modified.v, span |-> sp])

\* ------------------------------------------------------------------------
\* SpecEvent: a plain event is validated or converted, or a span is built
\* from a start and a duration

\* RRULE strings: FREQ=MONTHLY;INTERVAL=3;BYMONTHDAY=1,15;COUNT=10, and two
\* the parser refuses, INTERVAL=2 and FREQ=HOURLY
RRuleTexts ==
    { fmt(RecurrenceRule("Monthly", MaxInterval, Count(10), None, None, None,
                         Some(<<1, 15>>), None, None)),
      key_value(KEY_INTERVAL, <<"2">>),
      key_value(KEY_FREQ, <<"H", "O", "U", "R", "L", "Y">>) }

RecurrencePlains ==
    { RecurrencePlain(r, ex, rd) :
        r \in {None} \cup {Some(t) : t \in RRuleTexts},
        ex \in {None, Some(<<7>>)}, rd \in {None, Some(<<14>>)} }

EventPlains ==
    { EventPlain(id, parent, sd, st, ed, et, rec, lm) :
        id \in {None, Some("id1")}, parent \in {None, Some("id0")},
        sd \in {None, Some(0), Some(1)}, st \in {None, Some(3600)},
        ed \in {None, Some(0), Some(1)}, et \in {None, Some(60)},
        rec \in {None} \cup {Some(r) : r \in RecurrencePlains},
        lm \in {None, Some(and_time(0, 0))} }

\* durations, in seconds: minus a day, minus a second, none, an hour, a day
Durations == {-86400, -1, 0, 3600, 86400}

InitEvent ==
    /\ plain \in {Some(p) : p \in EventPlains}
    /\ valid = None /\ event = None /\ span = None
    /\ arg_rule = None
    /\ start_date = 0
    /\ rule = None
    /\ instantiations = 0
    /\ it = RRuleInstances_new(start_date)
    /\ pc = "plain"
    /\ ret = None
    /\ NoText

\* plain.validate_non_patch()
validate_non_patch_call ==
    /\ pc = "plain"
    /\ valid' = Some(validate_non_patch(plain.v))
    /\ pc' = "validated"
    /\ UNCHANGED <<arg_rule, iterVars, textVars, plain, event, span>>

\* Event::try_from(plain)
try_from ==
    /\ pc = "plain"
    /\ event' = Some(Event_try_from(plain.v))
    /\ span' = IF event'.v.ok THEN Some(event'.v.v.span) ELSE None
    /\ pc' = "converted"
    /\ UNCHANGED <<arg_rule, iterVars, textVars, plain, valid>>

\* EventSpan::from_date_and_duration(start, duration)
from_date_and_duration_call ==
    /\ pc = "plain"
    /\ \E start \in {0, 59}, duration \in Durations :
          span' = Some(from_date_and_duration(start, duration))
    /\ pc' = "built"
    /\ UNCHANGED <<arg_rule, iterVars, textVars, plain, valid, event>>

\* EventSpan::from_date_time_and_duration(start, duration)
from_date_time_and_duration_call ==
    /\ pc = "plain"
    /\ \E start \in {and_time(0, 0), and_time(59, 3600)}, duration \in Durations :
          span' = Some(from_date_time_and_duration(start, duration))
    /\ pc' = "built"
    /\ UNCHANGED <<arg_rule, iterVars, textVars, plain, valid, event>>

NextEvent ==
    \/ validate_non_patch_call
    \/ try_from
    \/ from_date_and_duration_call
    \/ from_date_time_and_duration_call

SpecEvent == InitEvent /\ [][NextEvent]_vars

\* the span fields of a plain event are acceptable
SpanFieldsOk(p) ==
    /\ is_some(p.start_date) /\ is_some(p.end_date)
    /\ is_some(p.start_time) <=> is_some(p.end_time)

\* C15 as stated: validate_non_patch accepts exactly when both dates are
\* present, the times are both present or both absent, and a recurrence
\* block, if present, has its rrule; exdates and rdates play no part.
C15_AcceptsIffRRulePresent ==
    pc = "validated" =>
        (valid.v <=> /\ SpanFieldsOk(plain.v)
                     /\ is_some(plain.v.recurrence) =>
                            is_some(plain.v.recurrence.v.rrule))

\* C15 amended: validate_non_patch accepts exactly when both dates are
\* present, the times are both present or both absent, and a recurrence
\* block, if present, has its rrule, its exdates and its rdates.
C15_AcceptsIffRecurrenceComplete ==
    pc = "validated" =>
        (valid.v <=> /\ SpanFieldsOk(plain.v)
                     /\ is_some(plain.v.recurrence) =>
                            /\ is_some(plain.v.recurrence.v.rrule)
                            /\ is_some(plain.v.recurrence.v.exdates)
                            /\ is_some(plain.v.recurrence.v.rdates))

\* an event whose recurrence has an rrule and rdates but no exdates was
\* validated, and refused
C15_Witness ==
    /\ pc = "validated"
    /\ SpanFieldsOk(plain.v)
    /\ is_some(plain.v.recurrence)
    /\ is_some(plain.v.recurrence.v.rrule)
    /\ is_none(plain.v.recurrence.v.exdates)
    /\ is_some(plain.v.recurrence.v.rdates)
    /\ valid.v = FALSE

\* C16: the conversion succeeds exactly when start_date, end_date, id and
\* last_modified are present, the times are both present or both absent,
\* and there is no recurrence block or its rrule is present and parses; on
\* success the event is Recurring exactly when a recurrence block is
\* present, with missing exdates / rdates as empty lists, and otherwise
\* Single with the plain parent_id.
C16_ConversionContract ==
    pc = "converted" =>
        LET p == plain.v
            e == event.v
            convertible ==
                /\ SpanFieldsOk(p)
                /\ is_some(p.id) /\ is_some(p.last_modified)
                /\ \/ is_none(p.recurrence)
                   \/ /\ is_some(p.recurrence.v.rrule)
                      /\ parse(p.recurrence.v.rrule.v).ok
        IN  /\ e.ok <=> convertible
            /\ e.ok =>
                 IF is_some(p.recurrence)
                 THEN /\ e.v.kind = "Recurring"
                      /\ e.v.recurrence.rule = parse(p.recurrence.v.rrule.v).v
                      /\ e.v.recurrence.exdates = unwrap_or(p.recurrence.v.exdates, <<>>)
                      /\ e.v.recurrence.rdates = unwrap_or(p.recurrence.v.rdates, <<>>)
                 ELSE /\ e.v.kind = "Single"
                      /\ e.v.parent_id = p.parent_id

\* a plain event whose recurrence has an rrule and rdates but no exdates
\* was converted to a Recurring event
C16_Witness ==
    /\ pc = "converted"
    /\ event.v.ok
    /\ event.v.v.kind = "Recurring"
    /\ is_none(plain.v.recurrence.v.exdates)
    /\ is_some(plain.v.recurrence.v.rdates)

\* C17: the span of every converted event, and every span built from a
\* start and a duration, has start <= end.
C17_SpanStartBeforeEnd ==
    is_some(span) => span.v.start <= span.v.end

\* ------------------------------------------------------------------------
\* SpecMonthly: the iterator over monthly rules, with intervals up to and
\* above a year

MonthlyRules(start) ==
    { RecurrenceRule("Monthly", i, l, None, None, None, bmd, None, bsp) :
        i \in {1, MaxInterval, 12, 13}, l \in Limits(start),
        bmd \in {None, Some(<<1, 29>>)}, bsp \in BySetPos }

InitMonthly ==
    /\ start_date \in StartDates
    /\ arg_rule \in MonthlyRules(start_date)
    /\ rule = infer_stuff(arg_rule, start_date)
    /\ instantiations = 1
    /\ it = RRuleInstances_new(start_date)
    /\ pc = "created"
    /\ ret = None
    /\ NoText /\ NoEvent

SpecMonthly == InitMonthly /\ [][Next]_vars

\* calendar months from the month of date b to the month of date a
MonthsBetween(a, b) == 12 * (year(a) - year(b)) + (month(a) - month(b))

\* C21: two dates returned one after the other by a monthly rule with
\* interval k are in the same month of the same year or at least k calendar
\* months apart, years counted in.
C21_MonthlySpacing ==
    [][ (arg_rule.frequency = "Monthly" /\ Emits /\ it.instance_count >= 1) =>
          LET md == MonthsBetween(ret'.v, it.last_instance_date)
          IN  md = 0 \/ md >= arg_rule.interval ]_vars

\* ------------------------------------------------------------------------
\* Claims about the limit and the end of the sequence (Spec)

\* C22: a limit only truncates: under Count(N) or Until(U) the iterator
\* starts from the instance and iterator state of the same rule with limit
\* Indefinite, every iteration that does not end the sequence is the
\* iteration that rule performs in the same state, and every date returned
\* is the date that rule returns there; so the dates returned are a prefix
\* of those of the rule with limit Indefinite.
C22_LimitOnlyTruncates ==
    [][ rule.limit.kind # "Indefinite" =>
          /\ Unlimited(rule) = infer_stuff(Unlimited(arg_rule), start_date)
          /\ pc = "created" => it = RRuleInstances_new(start_date)
          /\ (pc = "loop" /\ pc' = "loop") =>
                /\ loop_outcome(Unlimited(rule), it) = "skip"
                /\ it' = loop_iteration(Unlimited(rule), it)
          /\ Emits =>
                /\ loop_outcome(Unlimited(rule), it) = "emit"
                /\ it' = loop_iteration(Unlimited(rule), it)
                /\ ret' = Some(it.current_date)
          /\ Ends => it' = it
          /\ pc # "loop" => it' = it ]_vars

\* a rule with an UNTIL limit has returned two dates, the second one
\* before the limit
C22_Witness ==
    /\ rule.limit.kind = "Date"
    /\ pc = "returned" /\ is_some(ret)
    /\ it.instance_count = 2
    /\ ret.v > start_date /\ ret.v < rule.limit.date

\* next() has returned None
Ended == pc = "returned" /\ is_none(ret)

\* C23: the iterator is fused: a call that returns None leaves
\* instance_count, last_instance_date and current_date as they were, and
\* after such a call the next call starts from the same iterator state and
\* its first iteration ends the loop again, returning None.
C23_Fused ==
    [][ /\ Ends => it' = it
        /\ Ended =>
              /\ pc' = "loop" /\ it' = it
              /\ loop_outcome(rule, it') = "break"
        /\ (pc = "loop" /\ loop_outcome(rule, it) = "break") => (Ends /\ it' = it) ]_vars

\* a rule with COUNT=2 has returned two dates and then None, with the
\* scan already past the start date
C23_Witness ==
    /\ Ended
    /\ rule.limit.kind = "Count"
    /\ it.instance_count = rule.limit.count
    /\ it.instance_count >= 1
    /\ it.current_date > it.last_instance_date

====
